---- MODULE Spec2Model ----
(***************************************************************************)
(* A model of the cTrader relay: POST /sync validates the request, opens   *)
(* one connection to the cTrader JSON API, runs app auth, account auth,    *)
(* the symbol list, the paginated deal list and (index.js) the symbol      *)
(* details, closes the connection and answers the caller once.             *)
(*                                                                         *)
(* The repository holds three versions of the relay; `variant` says which  *)
(* one a behaviour runs:                                                   *)
(*   "index.js"  WebSocket, symbol list (non-fatal), symbol details        *)
(*   "part_000"  TLS socket with the length-prefixed frame reader          *)
(*   "part_001"  WebSocket, no symbol list                                 *)
(***************************************************************************)
EXTENDS Integers, Sequences, FiniteSets, TLC

VARIABLES
  variant,     \* which source file runs
  pc,          \* where the POST /sync handler and syncAccount stand
  body,        \* req.body of the request
  args,        \* the argument object of syncAccount
  conn,        \* the connection: "none", "connecting", "open", "closed"
  connected,   \* the connect promise resolved with the connection
  closeCalls,  \* calls of ws.terminate() / sock.destroy()
  stalled,     \* part_000: the frame reader holds a frame it cannot parse
  handlers,    \* the message handlers registered on the connection
  timers,      \* the armed waitFor timers
  sent,        \* the messages handed to sendMsg, in order
  symbols,     \* syncAccount: symbolId -> name
  lotSizes,    \* syncAccount: symbolId -> lotSize
  allDeals,    \* syncAccount: the deals collected
  pageFrom,    \* syncAccount: the cursor of the next deal request
  pages,       \* syncAccount: the pages collected
  uniqueIds,   \* syncAccount: the symbol ids found in the deals
  chunkAt,     \* syncAccount: 0-based start of the symbol-detail chunk (i)
  pageLog,     \* history: the deal pages the deal waits resolved with
  detailLog,   \* history: the messages the symbol-detail waits resolved with
  failures,    \* history: the waits that rejected, with step and error
  settled,     \* history: the waits that settled, with type and outcome
  responses,   \* the bodies passed to res.json, in order
  \* the correlator on its own (waitFor on one connection)
  waits,       \* the calls of waitFor so far: wantType and timeoutMs
  listeners,   \* the waits whose handler is registered on the connection
  armed,       \* the waits whose timer is armed
  outcome,     \* per wait: "pending", or how its promise settled
  arrived,     \* the messages the connection delivered, in order
  \* the frame reader on its own (createFrameReader on one socket)
  items,       \* what the remote side wrote, item by item
  stream,      \* the bytes the remote side wrote
  fed,         \* how many of them the socket has handed over in 'data' events
  buf,         \* the reader's buffer
  decoded,     \* the messages the reader passed to its handlers
  \* sendMsg on its own (every sync of the process)
  now,         \* Date.now()
  outbox       \* the clientMsgId of every message sent

locals == <<symbols, lotSizes, allDeals, pageFrom, pages, uniqueIds, chunkAt>>
history == <<pageLog, detailLog, failures, settled>>
waitVars == <<waits, listeners, armed, outcome, arrived>>
readerVars == <<items, stream, fed, buf, decoded>>
sendVars == <<now, outbox>>
parts == <<waitVars, readerVars, sendVars>>
sync == <<pc, body, args, conn, connected, closeCalls, stalled, handlers, timers,
          sent, locals, history, responses>>
vars == <<variant, pc, body, args, conn, connected, closeCalls, stalled,
          handlers, timers, sent, locals, history, responses, parts>>

Variants == {"index.js", "part_000", "part_001"}

(***************************************************************************)
(* Program constants.                                                      *)
(***************************************************************************)
MAX_PAGES == 40
DEALS_PER_PAGE == 500
CHUNK_SIZE == 50
DEFAULT_TIMEOUT == 12000
\* the connect timeout: setTimeout(..., 12000), sock.setTimeout(12000)
CONNECT_TIMEOUT == 12000

(***************************************************************************)
(* Bounds of the remote side the model draws its answers from.             *)
(***************************************************************************)
\* distinct symbol ids a long page of deals refers to
NumSyms == 60
\* the remote varies the shape of a page only among the first pages;
\* later pages are full pages (or fail)
VariedPages == 2

(***************************************************************************)
(* JavaScript values of the request body.                                  *)
(***************************************************************************)
Undefined == [t |-> "undefined"]
Null == [t |-> "null"]
Str(s) == [t |-> "string", s |-> s]
Num(n) == [t |-> "number", n |-> n]

\* Number(text) for the texts the requests of the model carry
NumberOfText(s) ==
  CASE s = "" -> 0
    [] s = "0" -> 0
    [] s = "42" -> 42
    [] s = "990" -> 990
    [] s = "1001" -> 1001
    [] s = "1002" -> 1002
    [] s = "100000" -> 100000

ToNumber(x) ==
  CASE x.t = "number" -> x.n
    [] x.t = "string" -> NumberOfText(x.s)
    [] x.t = "null" -> 0

Fields == <<"host", "clientId", "clientSecret", "accessToken",
            "ctidAccountId", "fromTimestamp", "toTimestamp">>

\* a variation: the test !req.body[k], which also counts the number 0
IsMissingFalsy(x) ==
  \/ x.t = "undefined"
  \/ x.t = "null"
  \/ (x.t = "string" /\ x.s = "")
  \/ (x.t = "number" /\ x.n = 0)

\* req.body[k] === undefined || req.body[k] === null || req.body[k] === ''
IsMissing(x) ==
  \/ x.t = "undefined"
  \/ x.t = "null"
  \/ (x.t = "string" /\ x.s = "")

\* the filter over the seven field names, in their order
Missing(b) == SelectSeq(Fields, LAMBDA k : IsMissing(b[k]))

MissingPrefix(v) == IF v = "part_000" THEN "Missing fields: " ELSE "Missing: "

TextValues == {Undefined, Null, Str(""), Str("x")}

Bodies ==
  [host : TextValues, clientId : TextValues, clientSecret : TextValues,
   accessToken : TextValues,
   ctidAccountId : {Undefined, Null, Str(""), Str("42")},
   fromTimestamp : {Undefined, Str(""), Num(0), Str("990")},
   toTimestamp : {Null, Str(""), Num(1001), Num(1002), Str("100000")}]

NoArgs ==
  [host |-> "", clientId |-> "", clientSecret |-> "", accessToken |-> "",
   ctidAccountId |-> 0, fromTimestamp |-> 0, toTimestamp |-> 0]

\* the argument object the route builds for syncAccount
ArgsOf(b) ==
  [host |-> b.host.s, clientId |-> b.clientId.s, clientSecret |-> b.clientSecret.s,
   accessToken |-> b.accessToken.s,
   ctidAccountId |-> ToNumber(b.ctidAccountId),
   fromTimestamp |-> ToNumber(b.fromTimestamp),
   toTimestamp |-> ToNumber(b.toTimestamp)]
NoBody == [k \in {} |-> Undefined]

(***************************************************************************)
(* Inbound messages.  A unit the connection delivers is a parsed message   *)
(* (a record; a missing field is a field the record does not have), the    *)
(* JSON text null, or text that does not parse.                            *)
(***************************************************************************)
JsonNull == [json |-> "null"]
Garbage == [json |-> "unparseable"]

Bare(pt) == [payloadType |-> pt]
Msg(pt, p) == [payloadType |-> pt, payload |-> p]

HasPayload(m) == "payload" \in DOMAIN m
\* msg.payload?.f is present
HasField(m, f) == HasPayload(m) /\ f \in DOMAIN m.payload

\* Number(msg.payloadType ?? 0)
PayloadTypeOf(m) == IF "payloadType" \in DOMAIN m THEN m.payloadType ELSE 0

ErrorTypes == {50, 2142}

\* a variation: a handler without the branch for the error types
ClassifyNoError(wantType, m) ==
  IF "json" \in DOMAIN m
    THEN (IF m.json = "null" THEN "throw" ELSE "drop")
    ELSE IF PayloadTypeOf(m) = wantType THEN "resolve" ELSE "ignore"

\* a variation: a handler that takes the first message that is no error
ClassifyFirstMessage(wantType, m) ==
  IF "json" \in DOMAIN m
    THEN (IF m.json = "null" THEN "throw" ELSE "drop")
    ELSE IF PayloadTypeOf(m) \in ErrorTypes THEN "reject" ELSE "resolve"

\* what the waitFor handler does with an inbound unit
Classify(wantType, m) ==
  IF "json" \in DOMAIN m
    THEN (IF m.json = "null" THEN "throw" ELSE "drop")
    ELSE IF PayloadTypeOf(m) = wantType THEN "resolve"
    ELSE IF PayloadTypeOf(m) \in ErrorTypes THEN "reject"
    ELSE "ignore"

\* JSON.stringify(msg.payload) inside the template literal
StringifyPayload(m) == IF HasPayload(m) THEN "{}" ELSE "undefined"

\* msg.payload?.description ?? msg.payload?.errorCode ?? JSON.stringify(msg.payload)
ErrorDetail(m) ==
  IF HasField(m, "description") THEN m.payload.description
  ELSE IF HasField(m, "errorCode") THEN m.payload.errorCode
  ELSE StringifyPayload(m)

RemoteError(m) ==
  [kind |-> "cTrader error", payloadType |-> PayloadTypeOf(m), detail |-> ErrorDetail(m)]
TimeoutError(wantType) ==
  [kind |-> "Timeout waiting for payloadType", payloadType |-> wantType, detail |-> ""]
ConnectTimeoutError == [kind |-> "connect timeout", payloadType |-> 0, detail |-> ""]
ConnectError == [kind |-> "connect error", payloadType |-> 0, detail |-> "ECONNREFUSED"]

(***************************************************************************)
(* Payload types per version.                                              *)
(***************************************************************************)
DealReqType(v) == IF v = "index.js" THEN 2133 ELSE 2155
DealResType(v) == IF v = "index.js" THEN 2134 ELSE 2156
SymbolListTimeout(v) == IF v = "part_000" THEN 15000 ELSE 20000

(***************************************************************************)
(* Tables (plain objects keyed by symbol id).                              *)
(***************************************************************************)
EmptyTable == <<>>
Put(tbl, k, v) == (k :> v) @@ tbl
Has(tbl, k) == k \in DOMAIN tbl

(***************************************************************************)
(* The symbol list.                                                        *)
(***************************************************************************)
\* symRes.payload?.symbol ?? symRes.payload?.symbols ?? []   (index.js)
\* symRes.payload?.symbol ?? []                              (part_000)
SymListOf(v, m) ==
  IF HasField(m, "symbol") THEN m.payload.symbol
  ELSE IF v = "index.js" /\ HasField(m, "symbols") THEN m.payload.symbols
  ELSE <<>>

\* Number(s.symbolId ?? s.id ?? 0)
EntryId(s) ==
  IF "symbolId" \in DOMAIN s THEN s.symbolId
  ELSE IF "id" \in DOMAIN s THEN s.id ELSE 0

\* s.symbolName ?? s.name ?? null, with "" standing for null
EntryName(s) ==
  IF "symbolName" \in DOMAIN s THEN s.symbolName
  ELSE IF "name" \in DOMAIN s THEN s.name ELSE ""

\* one round of the loop over the symbol list
SymbolListEntry(v, tbl, s) ==
  IF v = "index.js"
    THEN (IF EntryId(s) # 0 /\ EntryName(s) # ""
            THEN Put(tbl, EntryId(s), EntryName(s)) ELSE tbl)
    ELSE Put(tbl, s.symbolId, s.symbolName)

RECURSIVE SymbolListFrom(_, _, _, _)
SymbolListFrom(v, tbl, list, k) ==
  IF k > Len(list) THEN tbl
  ELSE SymbolListFrom(v, SymbolListEntry(v, tbl, list[k]), list, k + 1)

ApplySymbolList(v, tbl, m) == SymbolListFrom(v, tbl, SymListOf(v, m), 1)

(***************************************************************************)
(* Deal pages.                                                             *)
(***************************************************************************)
\* A deal is the pair of its executionTimestamp and its symbolId (0 for a
\* deal without one); the relay passes its other fields through untouched.
Deal(ts, id) == <<ts, id>>

\* Number(d.executionTimestamp)
ExecutionTimestamp(d) == d[1]

\* Number(d.symbolId ?? 0)
DealSymbolId(d) == d[2]

\* r.payload?.deal ?? []
DealsOf(m) == IF HasField(m, "deal") THEN m.payload.deal ELSE <<>>

\* Math.max(...deals.map(d => Number(d.executionTimestamp)))
MaxTs(deals) ==
  CHOOSE t \in {ExecutionTimestamp(deals[k]) : k \in 1..Len(deals)} :
    \A k \in 1..Len(deals) : ExecutionTimestamp(deals[k]) <= t

\* a variation: the cursor taken from the last deal of the page
LastTsPlusOne(deals) == ExecutionTimestamp(deals[Len(deals)]) + 1

\* pageFrom = Math.max(...) + 1
NextCursor(deals) == MaxTs(deals) + 1

\* a variation: allDeals.unshift(...deals)
PushFront(all, deals) == deals \o all

\* allDeals.push(...deals)
Push(all, deals) == all \o deals

\* if (deals.length < 500) break
ShortPage(deals) == Len(deals) < DEALS_PER_PAGE

\* if (pageFrom >= toTimestamp) break
PastEnd(cursor, to) == cursor >= to

\* a variation: a loop that gives up after two pages
LoopGuardEarly(n) == n < 2

\* while (pages < 40)
LoopGuard(n) == n < MAX_PAGES

(***************************************************************************)
(* Symbol details.                                                         *)
(***************************************************************************)
\* the n-th smallest element of a finite set of numbers
NthSmallest(S, n) == CHOOSE p \in S : Cardinality({q \in S : q < p}) = n - 1

\* the positions of the deals that are the first of their non-zero symbol id
FirstPositions(deals) ==
  {k \in 1..Len(deals) :
     /\ DealSymbolId(deals[k]) # 0
     /\ \A j \in 1..(k - 1) : DealSymbolId(deals[j]) # DealSymbolId(deals[k])}

IdsAt(deals, pos) ==
  [n \in 1..Cardinality(pos) |-> DealSymbolId(deals[NthSmallest(pos, n)])]

\* [...new Set(allDeals.map(d => Number(d.symbolId ?? 0)).filter(Boolean))]:
\* the distinct non-zero ids in the order of their first deal
UniqueIds(deals) == IdsAt(deals, FirstPositions(deals))

Min(a, b) == IF a < b THEN a ELSE b

\* uniqueIds.slice(i, i + 50)
Chunk(ids, i) == SubSeq(ids, i + 1, Min(i + CHUNK_SIZE, Len(ids)))

\* detRes.payload?.symbolDetails ?? []
DetailsOf(m) == IF HasField(m, "symbolDetails") THEN m.payload.symbolDetails ELSE <<>>

\* Number(d.symbolId ?? 0) of a detail record
DetailId(d) == IF "symbolId" \in DOMAIN d THEN d.symbolId ELSE 0

\* Number(d.lotSize ?? 0)
DetailLot(d) == IF "lotSize" \in DOMAIN d THEN d.lotSize ELSE 0

\* the records the loop writes a lot size for: if (id && lot)
LotRecords(list) ==
  {k \in 1..Len(list) : DetailId(list[k]) # 0 /\ DetailLot(list[k]) # 0}

\* a variation: the name written whether or not the table holds one
NameGapIgnored(tbl, id) == TRUE

\* !symbols[id]: the table holds no name for id (a stored name is never
\* empty)
NameGap(tbl, id) == ~Has(tbl, id)

\* the records the loop may write a name for: if (id && nm && !symbols[id]),
\* with the table as it is before the response
NameRecords(tbl, list) ==
  {k \in 1..Len(list) :
     /\ DetailId(list[k]) # 0
     /\ EntryName(list[k]) # ""
     /\ NameGap(tbl, DetailId(list[k]))}

Largest(S) == CHOOSE p \in S : \A q \in S : q <= p
Smallest(S) == CHOOSE p \in S : \A q \in S : p <= q

\* lotSizes after the loop over the records: each write replaces the one
\* before, so the last record of an id stays
ApplyDetailLots(lots, m) ==
  LET list == DetailsOf(m)
      recs == LotRecords(list)
      ids == {DetailId(list[k]) : k \in recs}
  IN [x \in (DOMAIN lots) \cup ids |->
        IF x \in ids
          THEN DetailLot(list[Largest({k \in recs : DetailId(list[k]) = x})])
          ELSE lots[x]]

\* symbols after the loop over the records: the first record of an id with
\* no name fills the gap, and the later ones find it filled
ApplyDetailNames(tbl, m) ==
  LET list == DetailsOf(m)
      recs == NameRecords(tbl, list)
      ids == {DetailId(list[k]) : k \in recs}
  IN [x \in (DOMAIN tbl) \cup ids |->
        IF x \in ids
          THEN EntryName(list[Smallest({k \in recs : DetailId(list[k]) = x})])
          ELSE tbl[x]]

(***************************************************************************)
(* The remote side: the answers it may send.  It sees the request in       *)
(* flight, so a deal page is built from the cursor asked for and a detail  *)
(* batch from the ids asked for.                                           *)
(***************************************************************************)
SymbolListTemplates == {"std", "alt", "bare"}

SymbolListMsg(tpl) ==
  CASE tpl = "std" ->
         Msg(2120, [symbol |-> << [symbolId |-> 7, symbolName |-> "EURUSD"] >>])
    [] tpl = "alt" ->
         Msg(2120, [symbols |-> << [id |-> 3, name |-> "XAUUSD"],
                                   [id |-> 0, name |-> "ZERO"],
                                   [id |-> 5] >>])
    [] tpl = "bare" -> Bare(2120)

DealTemplates == {"nodeal", "empty", "three", "pair", "partial", "full"}

DealPage(tpl, base) ==
  CASE tpl = "three" -> [k \in 1..3 |-> Deal(base + k, 7)]
    [] tpl = "pair" -> << Deal(base + 1, 7), Deal(base, 9) >>
    [] tpl = "partial" ->
         [k \in 1..120 |-> Deal(base + (k % 11), k % (NumSyms + 1))]
    [] tpl = "full" ->
         [k \in 1..DEALS_PER_PAGE |->
            Deal(base + ((k * 7) % 11), ((k - 1) % NumSyms) + 1)]
    [] OTHER -> <<>>

DealMsg(v, tpl, base) ==
  IF tpl = "nodeal" THEN Bare(DealResType(v))
  ELSE Msg(DealResType(v), [deal |-> DealPage(tpl, base)])

DetailTemplates == {"std", "alt", "bare"}

NameOf(id) == IF id = 7 THEN "EURUSD_X" ELSE IF id = 9 THEN "GBPUSD" ELSE "SYM"

DetailMsg(tpl, chunk) ==
  CASE tpl = "std" ->
         Msg(2126, [symbolDetails |->
           [k \in 1..Len(chunk) |->
              [symbolId |-> chunk[k], name |-> NameOf(chunk[k]), lotSize |-> 100000]]])
    [] tpl = "alt" ->
         Msg(2126, [symbolDetails |->
           [k \in 1..(Len(chunk) + 1) |->
              IF k > Len(chunk) THEN [name |-> "NOID", lotSize |-> 5]
              ELSE IF chunk[k] % 2 = 1
                THEN [symbolId |-> chunk[k], symbolName |-> "ALT", lotSize |-> 0]
                ELSE [symbolId |-> chunk[k], lotSize |-> 1000]]])
    [] tpl = "bare" -> Bare(2126)

ErrorMsgs ==
  {Msg(2142, [description |-> "bad token", errorCode |-> "CH_ACCESS_TOKEN_INVALID"]),
   Msg(50, [errorCode |-> "REQUEST_FREQUENCY_EXCEEDED"]),
   Bare(50)}

\* the units the remote may send in the current state, the deal pages apart
Replies ==
  {Bare(2101), Bare(2103), Bare(51), [clientMsgId |-> "x"], JsonNull, Garbage}
  \cup ErrorMsgs
  \cup {SymbolListMsg(t) : t \in SymbolListTemplates}
  \cup {DetailMsg(t, Chunk(uniqueIds, chunkAt)) : t \in DetailTemplates}

\* the deal pages the remote may send in the current state
DealReplies == {DealMsg(variant, t, pageFrom) : t \in DealTemplates}

(***************************************************************************)
(* The state of syncAccount's local variables as one record.               *)
(***************************************************************************)
Loc ==
  [symbols |-> symbols, lotSizes |-> lotSizes, allDeals |-> allDeals,
   pageFrom |-> pageFrom, pages |-> pages, uniqueIds |-> uniqueIds,
   chunkAt |-> chunkAt]

NoLoc ==
  [symbols |-> EmptyTable, lotSizes |-> EmptyTable, allDeals |-> <<>>,
   pageFrom |-> 0, pages |-> 0, uniqueIds |-> <<>>, chunkAt |-> 0]

SetLocals(L) ==
  /\ symbols' = L.symbols
  /\ lotSizes' = L.lotSizes
  /\ allDeals' = L.allDeals
  /\ pageFrom' = L.pageFrom
  /\ pages' = L.pages
  /\ uniqueIds' = L.uniqueIds
  /\ chunkAt' = L.chunkAt

(***************************************************************************)
(* waitFor's bookkeeping: reader.on / reader.off, setTimeout/clearTimeout. *)
(***************************************************************************)
Wait(wantType, ms) == [wantType |-> wantType, timeoutMs |-> ms]

\* history: the wait w settled, and how
Settled(w, how) == [wantType |-> w.wantType, outcome |-> how]

On(hs, h) == Append(hs, h)

\* a variation: a handler that is never taken off
OffNothing(hs, h) == hs

Off(hs, h) == SelectSeq(hs, LAMBDA x : x # h)

\* the handlers and timers once the pending waits are settled
SettledHandlers == IF handlers = <<>> THEN <<>> ELSE Off(handlers, handlers[1])
SettledTimers == IF handlers = <<>> THEN timers ELSE timers \ {handlers[1]}

\* sendMsg(conn, pt, payload); await waitFor(conn, wantType, ms)
SendAndWait(step, pt, payload, wantType, ms) ==
  /\ pc' = step
  /\ sent' = Append(sent, [payloadType |-> pt, payload |-> payload])
  /\ handlers' = On(SettledHandlers, Wait(wantType, ms))
  /\ timers' = SettledTimers \cup {Wait(wantType, ms)}
  /\ UNCHANGED <<conn, closeCalls, responses>>

\* a variation: a return path that leaves the connection as it is
TerminateSkipped(c) == c

\* finally { ws.terminate() } / finally { sock.destroy() }
Terminate(c) == "closed"

OkResponse(v, L) ==
  IF v = "index.js"
    THEN [ok |-> TRUE, deals |-> L.allDeals, symbols |-> L.symbols,
          lotSizes |-> L.lotSizes, pages |-> L.pages, total |-> Len(L.allDeals)]
    ELSE [ok |-> TRUE, deals |-> L.allDeals, symbols |-> L.symbols,
          pages |-> L.pages, total |-> Len(L.allDeals)]

ErrResponse(e) == [ok |-> FALSE, error |-> e]

\* syncAccount leaves through its finally block and the route answers
Leave(resp) ==
  /\ pc' = "done"
  /\ conn' = Terminate(conn)
  /\ closeCalls' = closeCalls + 1
  /\ handlers' = SettledHandlers
  /\ timers' = SettledTimers
  /\ responses' = Append(responses, resp)
  /\ SetLocals(NoLoc)
  /\ UNCHANGED sent

Return(L) == Leave(OkResponse(variant, L))
Throw(e) == Leave(ErrResponse(e))

(***************************************************************************)
(* The steps of syncAccount.                                               *)
(***************************************************************************)
DealRequest(L) ==
  /\ SendAndWait("deals", DealReqType(variant),
                 [ctidTraderAccountId |-> args.ctidAccountId,
                  fromTimestamp |-> L.pageFrom,
                  toTimestamp |-> args.toTimestamp,
                  maxRows |-> DEALS_PER_PAGE],
                 DealResType(variant), 20000)
  /\ SetLocals(L)

DetailRequest(L) ==
  /\ SendAndWait("details", 2125,
                 [ctidTraderAccountId |-> args.ctidAccountId,
                  symbolId |-> Chunk(L.uniqueIds, L.chunkAt)],
                 2126, 15000)
  /\ SetLocals(L)

\* after the deal loop: the symbol details (index.js) and the return
AfterDeals(L) ==
  IF variant = "index.js"
    THEN LET ids == UniqueIds(L.allDeals)
         IN IF ids # <<>>
              THEN DetailRequest([L EXCEPT !.uniqueIds = ids, !.chunkAt = 0])
              ELSE Return(L)
    ELSE Return(L)

\* const allDeals = []; let pageFrom = fromTimestamp; let pages = 0; while ...
StartDeals(L) ==
  LET L0 == [L EXCEPT !.allDeals = <<>>, !.pageFrom = args.fromTimestamp, !.pages = 0]
  IN IF LoopGuard(L0.pages) THEN DealRequest(L0) ELSE AfterDeals(L0)

\* a variation: the wait for the account auth answer is not awaited, and
\* the symbol list request goes out behind the account auth request
OnAppAuthNoAwait ==
  /\ pc' = "accountAuth"
  /\ sent' = sent \o
       << [payloadType |-> 2102,
           payload |-> [ctidTraderAccountId |-> args.ctidAccountId,
                        accessToken |-> args.accessToken]],
          [payloadType |-> 2119,
           payload |-> [ctidTraderAccountId |-> args.ctidAccountId,
                        includeArchivedSymbols |-> FALSE]] >>
  /\ handlers' = On(On(SettledHandlers, Wait(2103, DEFAULT_TIMEOUT)),
                    Wait(2120, SymbolListTimeout(variant)))
  /\ timers' = SettledTimers \cup {Wait(2103, DEFAULT_TIMEOUT),
                                   Wait(2120, SymbolListTimeout(variant))}
  /\ UNCHANGED <<conn, closeCalls, responses, locals>>

\* after the app auth answer: the account auth request
OnAppAuth ==
  /\ SendAndWait("accountAuth", 2102,
                 [ctidTraderAccountId |-> args.ctidAccountId,
                  accessToken |-> args.accessToken],
                 2103, DEFAULT_TIMEOUT)
  /\ UNCHANGED locals

OnAccountAuth ==
  IF variant = "part_001"
    THEN StartDeals(Loc)
    ELSE /\ SendAndWait("symbolList", 2119,
                        [ctidTraderAccountId |-> args.ctidAccountId,
                         includeArchivedSymbols |-> FALSE],
                        2120, SymbolListTimeout(variant))
         /\ UNCHANGED locals

OnSymbolList(m) ==
  StartDeals([Loc EXCEPT !.symbols = ApplySymbolList(variant, symbols, m)])

\* one round of the deal loop, from the page response on
OnDeals(m) ==
  LET deals == DealsOf(m) IN
  IF Len(deals) = 0 THEN AfterDeals(Loc)
  ELSE
    LET L1 == [Loc EXCEPT !.allDeals = Push(allDeals, deals), !.pages = pages + 1] IN
    IF ShortPage(deals) THEN AfterDeals(L1)
    ELSE
      LET L2 == [L1 EXCEPT !.pageFrom = NextCursor(deals)] IN
      IF PastEnd(L2.pageFrom, args.toTimestamp) THEN AfterDeals(L2)
      ELSE IF LoopGuard(L2.pages) THEN DealRequest(L2)
      ELSE AfterDeals(L2)

\* one round of the chunk loop, from the detail response on
OnDetails(m) ==
  LET L1 == [Loc EXCEPT !.lotSizes = ApplyDetailLots(lotSizes, m),
                        !.symbols = ApplyDetailNames(symbols, m),
                        !.chunkAt = chunkAt + CHUNK_SIZE]
  IN IF L1.chunkAt < Len(L1.uniqueIds) THEN DetailRequest(L1) ELSE Return(L1)

\* variations: no await inside a try/catch, every await inside one
FatalAll(step, v) == TRUE
FatalNone(step, v) == FALSE

\* the awaits no local try/catch surrounds
Fatal(step, v) ==
  \/ step \in {"appAuth", "accountAuth", "deals"}
  \/ (step = "symbolList" /\ v = "part_000")

\* a wait rejected with e
OnFailure(e) ==
  IF Fatal(pc, variant) THEN Throw(e)
  ELSE IF pc = "symbolList" THEN StartDeals(Loc)
  ELSE IF pc = "deals" THEN AfterDeals(Loc)
  ELSE Return(Loc)

(***************************************************************************)
(* Actions.                                                                *)
(***************************************************************************)
Init ==
  /\ variant \in Variants
  /\ pc = "idle"
  /\ body = NoBody
  /\ args = NoArgs
  /\ conn = "none"
  /\ connected = FALSE
  /\ closeCalls = 0
  /\ stalled = FALSE
  /\ handlers = <<>>
  /\ timers = {}
  /\ sent = <<>>
  /\ symbols = EmptyTable
  /\ lotSizes = EmptyTable
  /\ allDeals = <<>>
  /\ pageFrom = 0
  /\ pages = 0
  /\ uniqueIds = <<>>
  /\ chunkAt = 0
  /\ pageLog = <<>>
  /\ detailLog = <<>>
  /\ failures = <<>>
  /\ settled = <<>>
  /\ responses = <<>>
  /\ waits = <<>>
  /\ listeners = <<>>
  /\ armed = {}
  /\ outcome = <<>>
  /\ arrived = <<>>
  /\ items = <<>>
  /\ stream = <<>>
  /\ fed = 0
  /\ buf = <<>>
  /\ decoded = <<>>
  /\ now = 0
  /\ outbox = <<>>

\* app.post('/sync'): the validation, then the call of syncAccount, which
\* starts the connection attempt
Validate(b) ==
  /\ body' = b
  /\ IF Missing(b) # <<>>
       THEN /\ responses' = Append(responses,
                 ErrResponse([kind |-> MissingPrefix(variant), fields |-> Missing(b)]))
            /\ pc' = "done"
            /\ UNCHANGED <<args, conn>>
       ELSE /\ args' = ArgsOf(b)
            /\ conn' = "connecting"
            /\ pc' = "connecting"
            /\ UNCHANGED responses
  /\ UNCHANGED <<variant, parts, connected, closeCalls, stalled, handlers, timers, sent,
                 locals, history>>

Post ==
  /\ pc = "idle"
  /\ \E b \in Bodies : Validate(b)

\* the 'open' event / the secureConnect callback: the connect promise
\* resolves and syncAccount sends the app auth request
ConnectOpen ==
  /\ pc = "connecting"
  /\ conn' = "open"
  /\ connected' = TRUE
  /\ pc' = "appAuth"
  /\ sent' = Append(sent, [payloadType |-> 2100,
                           payload |-> [clientId |-> args.clientId,
                                        clientSecret |-> args.clientSecret]])
  /\ handlers' = On(handlers, Wait(2101, DEFAULT_TIMEOUT))
  /\ timers' = timers \cup {Wait(2101, DEFAULT_TIMEOUT)}
  /\ UNCHANGED <<variant, parts, body, args, closeCalls, stalled, locals, history, responses>>

\* the 12 s connect timer: terminate / destroy, reject
ConnectTimeout ==
  /\ pc = "connecting"
  /\ conn' = "closed"
  /\ closeCalls' = closeCalls + 1
  /\ pc' = "done"
  /\ responses' = Append(responses, ErrResponse(ConnectTimeoutError))
  /\ UNCHANGED <<variant, parts, body, args, connected, stalled, handlers, timers, sent,
                 locals, history>>

\* the 'error' event during the connection attempt: reject
ConnectFails ==
  /\ pc = "connecting"
  /\ conn' = "closed"
  /\ pc' = "done"
  /\ responses' = Append(responses, ErrResponse(ConnectError))
  /\ UNCHANGED <<variant, parts, body, args, connected, closeCalls, stalled, handlers,
                 timers, sent, locals, history>>

Waiting == pc \in {"appAuth", "accountAuth", "symbolList", "deals", "details"}
Receiving == Waiting /\ conn = "open" /\ ~stalled /\ Len(handlers) = 1

\* a message of the awaited type other than a deal page arrives
DeliverWanted ==
  /\ Receiving
  /\ pc # "deals"
  /\ \E m \in Replies :
       /\ Classify(handlers[1].wantType, m) = "resolve"
       /\ CASE pc = "appAuth" -> OnAppAuth
            [] pc = "accountAuth" -> OnAccountAuth
            [] pc = "symbolList" -> OnSymbolList(m)
            [] pc = "details" -> OnDetails(m)
       /\ detailLog' = IF pc = "details" THEN Append(detailLog, m) ELSE detailLog
  /\ settled' = Append(settled, Settled(handlers[1], "resolved"))
  /\ UNCHANGED <<variant, parts, body, args, connected, stalled, pageLog, failures>>

\* the answer to the deal request in flight arrives
DeliverDeals ==
  /\ Receiving
  /\ pc = "deals"
  /\ \E tpl \in DealTemplates :
       /\ tpl = "full" \/ pages < VariedPages
       /\ LET m == DealMsg(variant, tpl, pageFrom)
          IN /\ Classify(handlers[1].wantType, m) = "resolve"
             /\ OnDeals(m)
       /\ pageLog' = Append(pageLog, [tpl |-> tpl, base |-> pageFrom])
  /\ settled' = Append(settled, Settled(handlers[1], "resolved"))
  /\ UNCHANGED <<variant, parts, body, args, connected, stalled, detailLog, failures>>

\* an error message arrives while a wait is pending
DeliverError ==
  /\ Receiving
  /\ \E m \in Replies :
       /\ Classify(handlers[1].wantType, m) = "reject"
       /\ OnFailure(RemoteError(m))
       /\ failures' = Append(failures, [step |-> pc, error |-> RemoteError(m)])
  /\ settled' = Append(settled, Settled(handlers[1], "rejected"))
  /\ UNCHANGED <<variant, parts, body, args, connected, stalled, pageLog, detailLog>>

\* a message the pending wait's handler passes over (a heartbeat, another
\* type), or on a WebSocket a text that does not parse
DeliverIgnored ==
  /\ Receiving
  /\ \/ \E m \in Replies :
          \/ Classify(handlers[1].wantType, m) = "ignore"
          \/ (Classify(handlers[1].wantType, m) = "drop" /\ variant # "part_000")
     \/ \E m \in DealReplies : Classify(handlers[1].wantType, m) = "ignore"
  /\ UNCHANGED vars

\* part_000: a frame whose body does not parse stays at the head of the
\* reader's buffer, and no later frame is decoded
DeliverUnparseable ==
  /\ Receiving
  /\ variant = "part_000"
  /\ Classify(handlers[1].wantType, Garbage) = "drop"
  /\ stalled' = TRUE
  /\ UNCHANGED <<variant, parts, pc, body, args, conn, connected, closeCalls, handlers,
                 timers, sent, locals, history, responses>>

\* the JSON text null arrives: the handler reads msg.payloadType of null and
\* throws inside the event listener; nothing catches it and the process ends
DeliverNull ==
  /\ Receiving
  /\ Classify(handlers[1].wantType, JsonNull) = "throw"
  /\ pc' = "crashed"
  /\ conn' = "closed"
  /\ handlers' = <<>>
  /\ timers' = {}
  /\ SetLocals(NoLoc)
  /\ UNCHANGED <<variant, parts, body, args, connected, closeCalls, stalled, sent,
                 history, responses>>

\* a waitFor timer fires
WaitTimeout ==
  /\ Waiting
  /\ \E w \in timers :
       /\ handlers # <<>> /\ handlers[1] = w
       /\ OnFailure(TimeoutError(w.wantType))
       /\ failures' = Append(failures, [step |-> pc, error |-> TimeoutError(w.wantType)])
       /\ settled' = Append(settled, Settled(w, "timeout"))
  /\ UNCHANGED <<variant, parts, body, args, connected, stalled, pageLog, detailLog>>

\* the remote side drops the connection
RemoteClose ==
  /\ conn = "open"
  /\ conn' = "closed"
  /\ UNCHANGED <<variant, parts, pc, body, args, connected, closeCalls, stalled, handlers,
                 timers, sent, locals, history, responses>>

\* part_000: sock.setTimeout(12000) stays set after the connection is made;
\* its 'timeout' listener destroys the socket (the reject is a no-op)
IdleTimeout ==
  /\ variant = "part_000"
  /\ conn = "open"
  /\ conn' = "closed"
  /\ closeCalls' = closeCalls + 1
  /\ UNCHANGED <<variant, parts, pc, body, args, connected, stalled, handlers, timers,
                 sent, locals, history, responses>>

Next ==
  \/ Post
  \/ ConnectOpen
  \/ ConnectTimeout
  \/ ConnectFails
  \/ DeliverWanted
  \/ DeliverDeals
  \/ DeliverError
  \/ DeliverIgnored
  \/ DeliverUnparseable
  \/ DeliverNull
  \/ WaitTimeout
  \/ RemoteClose
  \/ IdleTimeout

Spec == Init /\ [][Next]_vars

\* the timers of the event loop fire: a connection attempt or a wait that
\* nothing else ends is ended by its timer
LiveSpec == Spec /\ WF_vars(ConnectTimeout) /\ WF_vars(WaitTimeout)

(***************************************************************************)
(* The correlator on its own: waitFor on one connection, with the messages *)
(* arriving in any order and at any time.  syncAccount awaits each wait    *)
(* before it calls waitFor again, so a wait starts when none is pending.   *)
(* The units here are parsed messages and, on a WebSocket, text that does  *)
(* not parse; the text null is the subject of DeliverNull above.           *)
(***************************************************************************)
\* the calls of waitFor one connection sees
MaxWaits == 2
\* the messages one connection delivers
MaxArrived == 3

WaitCalls == {Wait(2103, DEFAULT_TIMEOUT), Wait(2120, 15000)}

Wire ==
  {Bare(51), Bare(2101), Bare(2103), [clientMsgId |-> "x"], Garbage,
   SymbolListMsg("std"), SymbolListMsg("bare")}
  \cup ErrorMsgs

\* the states of a promise
Pending == [state |-> "pending"]
Resolved(m) == [state |-> "resolved", value |-> m]
Rejected(e) == [state |-> "rejected", error |-> e]

\* resolve(v) / reject(v): a promise settles once, later calls do nothing
Settle(out, w, v) == IF out[w] = Pending THEN [out EXCEPT ![w] = v] ELSE out

\* a variation: a timer that stays armed
ClearTimeoutSkipped(ts, w) == ts

\* clearTimeout(t)
ClearTimeout(ts, w) == ts \ {w}

\* the correlator's state as one record
WaitState == [listeners |-> listeners, armed |-> armed, outcome |-> outcome]

\* handler(data) of the wait w
Handler(st, w, m) ==
  LET cls == Classify(waits[w].wantType, m) IN
  IF cls = "resolve"
    THEN [listeners |-> Off(st.listeners, w),
          armed |-> ClearTimeout(st.armed, w),
          outcome |-> Settle(st.outcome, w, Resolved(m))]
  ELSE IF cls = "reject"
    THEN [listeners |-> Off(st.listeners, w),
          armed |-> ClearTimeout(st.armed, w),
          outcome |-> Settle(st.outcome, w, Rejected(RemoteError(m)))]
  ELSE st

\* the 'message' event: every handler registered when it is emitted runs
RECURSIVE Emit(_, _, _, _)
Emit(st, ls, k, m) ==
  IF k > Len(ls) THEN st ELSE Emit(Handler(st, ls[k], m), ls, k + 1, m)

\* waitFor(conn, wantType, timeoutMs): arm the timer, register the handler
WaitFor ==
  /\ Len(waits) < MaxWaits
  /\ \A w \in 1..Len(waits) : outcome[w] # Pending
  /\ \E c \in WaitCalls :
       /\ waits' = Append(waits, c)
       /\ listeners' = On(listeners, Len(waits) + 1)
       /\ armed' = armed \cup {Len(waits) + 1}
       /\ outcome' = Append(outcome, Pending)
  /\ UNCHANGED <<variant, sync, arrived, readerVars, sendVars>>

\* the connection delivers a message
Arrive ==
  /\ Len(arrived) < MaxArrived
  /\ \E m \in Wire :
       /\ "json" \in DOMAIN m => variant # "part_000"
       /\ LET st == Emit(WaitState, listeners, 1, m)
          IN /\ listeners' = st.listeners
             /\ armed' = st.armed
             /\ outcome' = st.outcome
       /\ arrived' = Append(arrived, m)
  /\ UNCHANGED <<variant, sync, waits, readerVars, sendVars>>

\* the timer of the wait w fires: take the handler off, reject
TimerFires ==
  /\ \E w \in armed :
       /\ listeners' = Off(listeners, w)
       /\ armed' = armed \ {w}
       /\ outcome' = Settle(outcome, w, Rejected(TimeoutError(waits[w].wantType)))
  /\ UNCHANGED <<variant, sync, waits, arrived, readerVars, sendVars>>

WaitNext == WaitFor \/ Arrive \/ TimerFires

WaitSpec == Init /\ [][WaitNext]_vars

(***************************************************************************)
(* The frame reader of part_000 on its own: createFrameReader fed by the   *)
(* socket's 'data' events, and the frames sendMsg writes.                  *)
(*                                                                         *)
(* A text is a sequence of characters, a buffer a sequence of bytes.  The  *)
(* JSON text of a message is written here as "{", one digit for the        *)
(* payloadType, the characters of the payload, "}"; the clientMsgId, which *)
(* is ASCII, is left out.                                                  *)
(***************************************************************************)
MAX_FRAME == 2000000

\* the items the remote side writes in one run
MaxItems == 2

\* the UTF-8 bytes of a character
Utf8Of(c) ==
  CASE c = "{" -> <<123>>
    [] c = "}" -> <<125>>
    [] c = "1" -> <<49>>
    [] c = "2" -> <<50>>
    [] c = "a" -> <<97>>
    [] c = "e-acute" -> <<195, 169>>
    [] c = "euro" -> <<226, 130, 172>>
    [] c = "U+FFFD" -> <<239, 191, 189>>

\* Buffer.from(text): the UTF-8 bytes of a text
RECURSIVE Utf8(_)
Utf8(text) ==
  IF text = <<>> THEN <<>> ELSE Utf8Of(Head(text)) \o Utf8(Tail(text))

\* text.length: UTF-16 code units, one per character of the texts here
Length(text) == Len(text)

\* buf.toString(): the text of UTF-8 bytes; bytes that are no complete
\* character become U+FFFD
RECURSIVE BufToString(_)
BufToString(b) ==
  IF b = <<>> THEN <<>>
  ELSE IF Len(b) >= 2 /\ SubSeq(b, 1, 2) = <<195, 169>>
    THEN <<"e-acute">> \o BufToString(SubSeq(b, 3, Len(b)))
  ELSE IF Len(b) >= 3 /\ SubSeq(b, 1, 3) = <<226, 130, 172>>
    THEN <<"euro">> \o BufToString(SubSeq(b, 4, Len(b)))
  ELSE IF Len(b) >= 3 /\ SubSeq(b, 1, 3) = <<239, 191, 189>>
    THEN <<"U+FFFD">> \o BufToString(SubSeq(b, 4, Len(b)))
  ELSE (CASE b[1] = 123 -> <<"{">>
          [] b[1] = 125 -> <<"}">>
          [] b[1] = 49 -> <<"1">>
          [] b[1] = 50 -> <<"2">>
          [] b[1] = 97 -> <<"a">>
          [] OTHER -> <<"U+FFFD">>) \o BufToString(Tail(b))

Digit(n) == IF n = 1 THEN "1" ELSE "2"
NumberOfDigit(c) == IF c = "1" THEN 1 ELSE 2

\* JSON.stringify({ payloadType, clientMsgId, payload })
Stringify(msg) == <<"{", Digit(msg.payloadType)>> \o msg.payload \o <<"}">>

\* the text is the JSON text of a message
Parses(text) ==
  /\ Len(text) >= 3
  /\ text[1] = "{"
  /\ text[2] \in {"1", "2"}
  /\ text[Len(text)] = "}"
  /\ \A k \in 3..(Len(text) - 1) : text[k] \notin {"{", "}"}

\* JSON.parse(text) of such a text
Parse(text) ==
  [payloadType |-> NumberOfDigit(text[2]), payload |-> SubSeq(text, 3, Len(text) - 1)]

\* writeUInt32BE(n, 0)
UInt32BE(n) ==
  <<(n \div 16777216) % 256, (n \div 65536) % 256, (n \div 256) % 256, n % 256>>

\* buf.readUInt32BE(0).  A length whose first byte is not 0 is at least
\* 16777216, above the ceiling whatever the other bytes are, and the reader
\* only compares it with the ceiling: it is read as 16777216.
ReadUInt32BE(b) ==
  IF b[1] > 0 THEN 16777216 ELSE (b[2] * 256 + b[3]) * 256 + b[4]

\* the frame sendMsg writes: Buffer.alloc(4 + body.length), the length
\* body.length, and as many bytes of the body as the frame has room for
Frame(msg) ==
  LET json == Stringify(msg)
      bytes == Utf8(json)
  IN UInt32BE(Length(json)) \o SubSeq(bytes, 1, Length(json))

\* the frame a peer writes for a text: its length in bytes, then its bytes
PeerFrame(text) == UInt32BE(Len(Utf8(text))) \o Utf8(text)

\* a variation: the buffer replaced by the chunk
ConcatDropsOld(b, chunk) == chunk

\* buf = Buffer.concat([buf, chunk])
Concat(b, chunk) == b \o chunk

\* the while loop of the 'data' listener, from the buffer b with the
\* messages out passed to the handlers so far
RECURSIVE Drain(_, _)
Drain(b, out) ==
  IF Len(b) < 4 THEN [buf |-> b, out |-> out]
  ELSE LET len == ReadUInt32BE(b) IN
    IF len <= 0 \/ len > MAX_FRAME THEN [buf |-> <<>>, out |-> out]
    ELSE IF Len(b) < 4 + len THEN [buf |-> b, out |-> out]
    ELSE LET text == BufToString(SubSeq(b, 5, 4 + len)) IN
      IF ~Parses(text) THEN [buf |-> b, out |-> out]
      ELSE Drain(SubSeq(b, 5 + len, Len(b)), Append(out, Parse(text)))

\* sock.on('data', (chunk) => ...)
OnData(b, chunk) == Drain(Concat(b, chunk), <<>>)

\* the messages of the model
Messages ==
  {[payloadType |-> 1, payload |-> <<>>],
   [payloadType |-> 2, payload |-> <<"a">>],
   [payloadType |-> 1, payload |-> <<"e-acute", "euro">>]}

\* what the remote side may write: the frame of a message, the bytes
\* sendMsg produces for a message, a zero length, a length above the
\* ceiling, a frame whose body is no JSON text
Items ==
  {[kind |-> "frame", msg |-> m] : m \in Messages}
  \cup {[kind |-> "sendMsg", msg |-> m] : m \in Messages}
  \cup {[kind |-> "zero"], [kind |-> "oversize"], [kind |-> "unparseable"]}

BytesOf(it) ==
  CASE it.kind = "frame" -> PeerFrame(Stringify(it.msg))
    [] it.kind = "sendMsg" -> Frame(it.msg)
    [] it.kind = "zero" -> <<0, 0, 0, 0>>
    [] it.kind = "oversize" -> <<1, 0, 0, 0>>
    [] it.kind = "unparseable" -> PeerFrame(<<"}">>)

\* the remote side writes an item
PeerWrites ==
  /\ variant = "part_000"
  /\ Len(items) < MaxItems
  /\ \E it \in Items :
       /\ items' = Append(items, it)
       /\ stream' = stream \o BytesOf(it)
  /\ UNCHANGED <<variant, sync, fed, buf, decoded, waitVars, sendVars>>

\* the socket hands over the next bytes, as many as it likes
SockData ==
  /\ variant = "part_000"
  /\ \E n \in 1..(Len(stream) - fed) :
       LET r == OnData(buf, SubSeq(stream, fed + 1, fed + n))
       IN /\ buf' = r.buf
          /\ decoded' = decoded \o r.out
          /\ fed' = fed + n
  /\ UNCHANGED <<variant, sync, items, stream, waitVars, sendVars>>

ReaderNext == PeerWrites \/ SockData

ReaderSpec == Init /\ [][ReaderNext]_vars

(***************************************************************************)
(* sendMsg on its own: the clientMsgId of the messages one process sends,  *)
(* for all its syncs together.  The clock moves between sends or does not. *)
(***************************************************************************)
\* the milliseconds the clock runs through
MaxNow == 3
\* the messages sent
MaxSent == 3
\* the values Math.random() takes
NumRandoms == 2

Randoms == 0..(NumRandoms - 1)

\* `tj_${Date.now()}` (index.js, part_001),
\* `tj_${Date.now()}_${Math.random().toString(36).slice(2)}` (part_000)
ClientMsgId(v, t, r) ==
  IF v = "part_000" THEN [now |-> t, random |-> r] ELSE [now |-> t]

\* a millisecond passes
Tick ==
  /\ now < MaxNow
  /\ now' = now + 1
  /\ UNCHANGED <<variant, sync, outbox, waitVars, readerVars>>

\* some sync of the process calls sendMsg
SendMsg ==
  /\ Len(outbox) < MaxSent
  /\ \E r \in Randoms : outbox' = Append(outbox, ClientMsgId(variant, now, r))
  /\ UNCHANGED <<variant, sync, now, waitVars, readerVars>>

SendNext == Tick \/ SendMsg

SendSpec == Init /\ [][SendNext]_vars

(***************************************************************************)
(* Properties.                                                             *)
(***************************************************************************)
Answered == Len(responses) > 0
Answer == responses[1]
AnsweredOk == Answered /\ Answer.ok

\* the deal requests handed to sendMsg, in order
DealRequests == SelectSeq(sent, LAMBDA r : r.payloadType = DealReqType(variant))

\* the steps whose wait rejected
FailedSteps == {failures[k].step : k \in 1..Len(failures)}

\* C1: when a sync that obtained a connection delivers its result or error,
\* the connection has been closed, on every exit path.
C1_ClosedWhenAnswered == (connected /\ Answered) => conn = "closed"

\* a sync that obtained a connection has delivered a result, and another an
\* error: this state is the first, after one page of deals
C1_Witness ==
  /\ connected /\ AnsweredOk /\ conn = "closed"
  /\ closeCalls = 1
  /\ Answer.total = 3

\* C2: every sync invocation eventually delivers exactly one response,
\* whatever the remote side does.
C2_AlwaysAnswers ==
  /\ [](pc # "idle" => <>(Len(responses) = 1))
  /\ [](Len(responses) <= 1)

\* the names of the fields the request lacks
AbsentNames(b) ==
  {Fields[k] : k \in {j \in 1..Len(Fields) :
                        b[Fields[j]] \in {Undefined, Null, Str("")}}}

NamesListed(r) == {r.error.fields[k] : k \in 1..Len(r.error.fields)}

\* C3: a request lacking any of the seven fields (undefined, null or '') is
\* answered ok:false with exactly the missing names and opens no connection;
\* a request with all seven reaches syncAccount.
C3_Validation ==
  pc # "idle" =>
    IF AbsentNames(body) # {}
      THEN /\ conn = "none" /\ sent = <<>> /\ ~connected
           /\ Len(responses) = 1 /\ ~Answer.ok
           /\ Answer.error.kind = MissingPrefix(variant)
           /\ NamesListed(Answer) = AbsentNames(body)
           /\ Len(Answer.error.fields) = Cardinality(AbsentNames(body))
      ELSE /\ conn # "none"
           /\ Answered => (Answer.ok \/ Answer.error.kind # MissingPrefix(variant))

\* a request lacking host (undefined) and toTimestamp ('') while
\* fromTimestamp is the number 0
C3_Witness ==
  /\ pc = "done" /\ conn = "none"
  /\ body.fromTimestamp = Num(0)
  /\ Answered /\ ~Answer.ok
  /\ Answer.error.fields = <<"host", "toTimestamp">>

FatalSteps == {"appAuth", "accountAuth", "deals"}

\* C4: a failure of the app-auth, account-auth or a deal-page wait fails the
\* sync: ok:false with that error and no deals, also after earlier pages.
C4_FatalSteps ==
  \A k \in 1..Len(failures) :
    failures[k].step \in FatalSteps =>
      /\ Len(responses) = 1
      /\ ~Answer.ok
      /\ Answer.error = failures[k].error
      /\ DOMAIN Answer = {"ok", "error"}

\* a deal page timed out after two pages had been retrieved
C4_Witness ==
  /\ Len(failures) > 0
  /\ failures[Len(failures)].step = "deals"
  /\ failures[Len(failures)].error.kind = "Timeout waiting for payloadType"
  /\ Len(pageLog) = 2
  /\ Answered /\ ~Answer.ok

\* C5: a failure of the symbol-list step is not fatal: the sync goes on to
\* the deal requests, and it is not the symbol-list failure that ends it.
C5_SymbolListNonFatal ==
  "symbolList" \in FailedSteps =>
    /\ Len(DealRequests) > 0
    /\ (Answered /\ ~Answer.ok) => failures[Len(failures)].step # "symbolList"

\* the result a sync returns from its tables as they are
ResultOfTables ==
  [ok |-> TRUE, deals |-> allDeals, symbols |-> symbols, lotSizes |-> lotSizes,
   pages |-> pages, total |-> Len(allDeals)]

\* C6: when the wait for a symbol-detail batch fails, the sync answers
\* ok:true with all retrieved deals and with the names and lot sizes the
\* earlier batches recorded.
C6_DetailFailureKept ==
  [][(pc = "details" /\ failures' # failures)
       => responses' = <<ResultOfTables>>]_vars

\* the second batch of details timed out after the first one recorded the
\* lot sizes of its fifty symbols
C6_Witness ==
  /\ FailedSteps = {"details"}
  /\ Len(detailLog) = 1
  /\ AnsweredOk
  /\ Answer.total = DEALS_PER_PAGE
  /\ Cardinality(DOMAIN Answer.lotSizes) = CHUNK_SIZE
  /\ \A id \in DOMAIN Answer.lotSizes : Answer.lotSizes[id] = 100000

\* the k-th page the remote side delivered
LoggedPage(k) == DealPage(pageLog[k].tpl, pageLog[k].base)

\* c is one more than the largest executionTimestamp of the page
OnePastMax(c, page) ==
  /\ \E i \in 1..Len(page) : ExecutionTimestamp(page[i]) + 1 = c
  /\ \A i \in 1..Len(page) : ExecutionTimestamp(page[i]) < c

\* the deal requests sent so far, and the cursor of the one the step sends
AsksForDeals == Len(DealRequests') > Len(DealRequests)
CursorAsked == DealRequests'[Len(DealRequests')].payload.fromTimestamp

\* C7: the first deal request asks from fromTimestamp, and each later one
\* from the largest executionTimestamp of the page before plus one; a later
\* request follows only a page of at least 500 deals and asks from below
\* toTimestamp.
C7_Cursor ==
  [][AsksForDeals =>
       /\ Len(DealRequests') = Len(DealRequests) + 1
       /\ Len(pageLog') = Len(DealRequests)
       /\ IF Len(DealRequests) = 0
            THEN CursorAsked = ToNumber(body.fromTimestamp)
            ELSE LET page == DealPage(pageLog'[Len(pageLog')].tpl,
                                      pageLog'[Len(pageLog')].base)
                 IN /\ pageLog' # pageLog
                    /\ Len(page) >= 500
                    /\ OnePastMax(CursorAsked, page)
                    /\ CursorAsked < ToNumber(body.toTimestamp)]_vars

\* a page of 500 deals with largest timestamp 1000, then a page of 120: two
\* requests, the second from 1001
C7_Witness ==
  /\ Len(pageLog) = 2
  /\ pageLog[1] = [tpl |-> "full", base |-> 990]
  /\ pageLog[2].tpl = "partial"
  /\ Len(DealRequests) = 2
  /\ DealRequests[2].payload.fromTimestamp = 1001
  /\ AnsweredOk
  /\ Answer.total = 620

\* every delivered page held 500 deals and left the cursor below toTimestamp
AllPagesFull ==
  \A k \in 1..Len(pageLog) :
    /\ Len(LoggedPage(k)) = 500
    /\ \A i \in 1..500 :
         ExecutionTimestamp(LoggedPage(k)[i]) + 1 < ToNumber(body.toTimestamp)

\* C8: a sync sends at most 40 deal requests; when every page is full and
\* the cursor stays below toTimestamp it ends after exactly 40 and returns
\* the 40 pages.
C8_AtMostForty ==
  /\ Len(DealRequests) <= 40
  /\ (AnsweredOk /\ AllPagesFull) =>
       /\ Len(DealRequests) = 40
       /\ Answer.pages = 40
       /\ Answer.total = 40 * 500

\* forty full pages were collected and returned
C8_Witness ==
  /\ AnsweredOk
  /\ AllPagesFull
  /\ Len(pageLog) = 40
  /\ Answer.total = 20000

\* the number of deals in the first n delivered pages
PageLen(tpl) ==
  CASE tpl = "three" -> 3
    [] tpl = "pair" -> 2
    [] tpl = "partial" -> 120
    [] tpl = "full" -> 500
    [] OTHER -> 0

DealsBefore(n) ==
  LET count(tpl) == Cardinality({j \in 1..(n - 1) : pageLog[j].tpl = tpl})
  IN 3 * count("three") + 2 * count("pair") + 120 * count("partial")
     + 500 * count("full")

\* C9: in a successful result deals is the delivered pages one after the
\* other, each in its own order, total is its length and pages is the number
\* of delivered pages that held a deal.
C9_DealsConcatenated ==
  AnsweredOk =>
    /\ \A k \in 1..Len(pageLog) :
         /\ Len(LoggedPage(k)) = PageLen(pageLog[k].tpl)
         /\ SubSeq(Answer.deals, DealsBefore(k) + 1, DealsBefore(k + 1)) = LoggedPage(k)
    /\ Len(Answer.deals) = DealsBefore(Len(pageLog) + 1)
    /\ Answer.total = Len(Answer.deals)
    /\ Answer.pages = Cardinality({k \in 1..Len(pageLog) : Len(LoggedPage(k)) > 0})

\* a full page, then a page of two deals: 502 deals in two pages
C9_Witness ==
  /\ AnsweredOk
  /\ Len(pageLog) = 2
  /\ pageLog[1].tpl = "full"
  /\ pageLog[2].tpl = "pair"
  /\ Answer.total = 502
  /\ Answer.pages = 2

\* the tables as the step leaves them: the locals, or the result it returns
SymbolsAfter == IF pc' = "done" THEN responses'[1].symbols ELSE symbols'
LotSizesAfter == IF pc' = "done" THEN responses'[1].lotSizes ELSE lotSizes'

\* the step hands its tables on: it neither fails the sync nor ends the
\* process
TablesLive == pc' # "crashed" /\ (pc' = "done" => (responses' # <<>> /\ responses'[1].ok))

\* the detail records of the batch the step received
BatchReceived == DetailsOf(detailLog'[Len(detailLog')])

\* C10: no step changes a name the symbol table holds; a detail record adds
\* a name only for an identifier without one, and its lot size is recorded.
C10_NamesKept ==
  [][TablesLive =>
       /\ \A id \in DOMAIN symbols :
            id \in DOMAIN SymbolsAfter /\ SymbolsAfter[id] = symbols[id]
       /\ detailLog' # detailLog =>
            /\ \A id \in (DOMAIN SymbolsAfter) \ (DOMAIN symbols) :
                 \E k \in 1..Len(BatchReceived) :
                   /\ DetailId(BatchReceived[k]) = id
                   /\ EntryName(BatchReceived[k]) = SymbolsAfter[id]
            /\ \A k \in 1..Len(BatchReceived) :
                 (DetailId(BatchReceived[k]) # 0 /\ EntryName(BatchReceived[k]) # "")
                   => DetailId(BatchReceived[k]) \in DOMAIN SymbolsAfter
            /\ \A k \in 1..Len(BatchReceived) :
                 LET id == DetailId(BatchReceived[k])
                 IN (id # 0 /\ DetailLot(BatchReceived[k]) # 0) =>
                      /\ id \in DOMAIN LotSizesAfter
                      /\ \E j \in 1..Len(BatchReceived) :
                           /\ DetailId(BatchReceived[j]) = id
                           /\ DetailLot(BatchReceived[j]) = LotSizesAfter[id]]_vars

\* table {7: EURUSD}, then the detail records (7, EURUSD_X, 100000) and
\* (9, GBPUSD, 100000)
C10_Witness ==
  /\ Len(detailLog) = 1
  /\ detailLog[1] = DetailMsg("std", <<7, 9>>)
  /\ AnsweredOk
  /\ Answer.symbols = (7 :> "EURUSD" @@ 9 :> "GBPUSD")
  /\ Answer.lotSizes = (7 :> 100000 @@ 9 :> 100000)

\* C11: a sync attempt that started a connection attempt and has ended has
\* called the close operation of its connection exactly once, and no attempt
\* calls it more than once.
C11_TeardownOnce ==
  /\ closeCalls <= 1
  /\ (pc = "done" /\ conn # "none") => closeCalls = 1

\* the step delivers a message, and the message it delivers
Arrives == arrived' # arrived
Arriving == arrived'[Len(arrived')]

\* the waits pending before the step
PendingWaits == {w \in 1..Len(waits) : outcome[w] = Pending}

\* the message is of a type the wait w passes over
PassedOver(w, m) ==
  PayloadTypeOf(m) \notin {waits[w].wantType, 50, 2142}

\* C12: a message that is neither of the wanted type nor of an error type
\* leaves a pending wait as it is, and a message of the wanted type
\* resolves the pending wait with that message.
C12_WaitsForItsType ==
  [][Arrives =>
       \A w \in PendingWaits :
         /\ PassedOver(w, Arriving) =>
              /\ outcome' = outcome
              /\ listeners' = listeners
              /\ armed' = armed
         /\ PayloadTypeOf(Arriving) = waits[w].wantType =>
              outcome'[w] = Resolved(Arriving)]_vars

\* a heartbeat, an answer of another type, then the answer waited for
C12_Witness ==
  /\ waits = <<Wait(2120, 15000)>>
  /\ arrived = <<Bare(51), Bare(2103), SymbolListMsg("std")>>
  /\ outcome = <<Resolved(SymbolListMsg("std"))>>

\* the detail a remote error carries
DetailOf(m) ==
  IF m = Bare(50) THEN "undefined"
  ELSE IF PayloadTypeOf(m) = 50 THEN "REQUEST_FREQUENCY_EXCEEDED"
  ELSE "bad token"

\* C13: an error message that reaches a pending wait rejects it with the
\* remote error detail; a wait that has settled keeps its outcome whatever
\* arrives later.
C13_ErrorRejects ==
  [][/\ Arrives =>
          \A w \in PendingWaits :
            PayloadTypeOf(Arriving) \in {50, 2142} =>
              /\ outcome'[w].state = "rejected"
              /\ outcome'[w].error.kind = "cTrader error"
              /\ outcome'[w].error.payloadType = PayloadTypeOf(Arriving)
              /\ outcome'[w].error.detail = DetailOf(Arriving)
     /\ \A w \in 1..Len(waits) :
          outcome[w] # Pending => outcome'[w] = outcome[w]]_vars

\* an error message, then the answer waited for: the wait stays rejected
C13_Witness ==
  /\ waits = <<Wait(2103, DEFAULT_TIMEOUT)>>
  /\ Len(arrived) = 2
  /\ PayloadTypeOf(arrived[1]) = 2142
  /\ arrived[2] = Bare(2103)
  /\ outcome[1].state = "rejected"
  /\ outcome[1].error.detail = "bad token"

\* the step is the firing of a timer
TimerStep == arrived' = arrived /\ waits' = waits /\ armed' # armed

\* C14: a pending wait has its timer armed, and when the timer fires the
\* wait fails with the timeout error naming the awaited type; a resolved
\* wait has no timer left, so none rejects it.
C14_Timeout ==
  [][/\ \A w \in 1..Len(waits') :
          /\ outcome'[w] = Pending => w \in armed'
          /\ outcome'[w].state = "resolved" => w \notin armed'
     /\ TimerStep =>
          \E w \in PendingWaits :
            /\ armed' = armed \ {w}
            /\ outcome'[w] =
                 Rejected([kind |-> "Timeout waiting for payloadType",
                           payloadType |-> waits[w].wantType, detail |-> ""])]_vars

\* only messages the wait passes over arrived, and its timer fired
C14_Witness ==
  /\ waits = <<Wait(2120, 15000)>>
  /\ arrived = <<Bare(51), Bare(2103)>>
  /\ outcome[1].state = "rejected"
  /\ outcome[1].error.kind = "Timeout waiting for payloadType"
  /\ outcome[1].error.payloadType = 2120
  /\ armed = {}

\* C15: at most one handler is registered, it is the pending wait's, and a
\* message arriving after a wait settled neither changes that wait nor
\* settles a later wait for another type.
C15_OneHandler ==
  [][/\ Len(listeners') <= 1
     /\ \A w \in 1..Len(waits') :
          (\E k \in 1..Len(listeners') : listeners'[k] = w) <=> outcome'[w] = Pending
     /\ Arrives =>
          \A w \in 1..Len(waits) :
            /\ outcome[w] # Pending => outcome'[w] = outcome[w]
            /\ (outcome[w] = Pending /\ outcome'[w] # Pending) =>
                 PayloadTypeOf(Arriving) \in {waits[w].wantType, 50, 2142}]_vars

\* the symbol-list wait timed out, the next wait is pending, and the late
\* symbol list arrives
C15_Witness ==
  /\ waits = <<Wait(2120, 15000), Wait(2103, DEFAULT_TIMEOUT)>>
  /\ outcome[1] = Rejected(TimeoutError(2120))
  /\ arrived = <<SymbolListMsg("std")>>
  /\ outcome[2] = Pending
  /\ listeners = <<2>>

\* the place of a request in the order of the flow
Rank(pt) ==
  CASE pt = 2100 -> 1
    [] pt = 2102 -> 2
    [] pt = 2119 -> 3
    [] pt \in {2133, 2155} -> 4
    [] pt = 2125 -> 5

\* the type of the answer to a request
AnswerType(pt) ==
  CASE pt = 2100 -> 2101
    [] pt = 2102 -> 2103
    [] pt = 2119 -> 2120
    [] pt = 2133 -> 2134
    [] pt = 2155 -> 2156
    [] pt = 2125 -> 2126

\* C16: requests go out one at a time and in the order app auth, account
\* auth, symbol list, deal pages, symbol details: every request but the last
\* has had its wait settled, the account auth request follows the app auth
\* answer, and every later request follows the account auth answer.
C16_OneAtATime ==
  pc # "crashed" =>
    /\ Len(handlers) <= 1
    /\ Len(sent) = Len(settled) + Len(handlers)
    /\ \A k \in 1..Len(settled) :
         settled[k].wantType = AnswerType(sent[k].payloadType)
    /\ \A k \in 1..Len(handlers) :
         handlers[k].wantType = AnswerType(sent[Len(sent)].payloadType)
    /\ Len(sent) >= 1 => sent[1].payloadType = 2100
    /\ Len(sent) >= 2 =>
         /\ sent[2].payloadType = 2102
         /\ settled[1] = [wantType |-> 2101, outcome |-> "resolved"]
    /\ Len(sent) >= 3 => settled[2] = [wantType |-> 2103, outcome |-> "resolved"]
    /\ \A k \in 3..Len(sent) :
         /\ Rank(sent[k].payloadType) >= 3
         /\ Rank(sent[k - 1].payloadType) <= Rank(sent[k].payloadType)
         /\ Rank(sent[k].payloadType) = 3 => k = 3

\* a sync of index.js that sent one request of each kind and answered
C16_Witness ==
  /\ AnsweredOk
  /\ Len(sent) = 5
  /\ \A k \in 1..5 : Rank(sent[k].payloadType) = k
  /\ \A k \in 1..5 : settled[k].outcome = "resolved"

\* the bytes handed over so far, and what the reader makes of them when it
\* gets them in one chunk
BytesFed == SubSeq(stream, 1, fed)
FedWhole == OnData(<<>>, BytesFed)

\* where the k-th item ends in the stream
RECURSIVE EndOf(_)
EndOf(k) == IF k = 0 THEN 0 ELSE EndOf(k - 1) + Len(BytesOf(items[k]))

\* the items handed over to the last byte
ItemsFed == {k \in 1..Len(items) : EndOf(k) <= fed}

\* every item written is the frame of a message: a length from 1 to the
\* ceiling, then that many bytes of JSON text
WellFormedStream == \A k \in 1..Len(items) : items[k].kind = "frame"

\* C17, as stated: however the bytes are cut into chunks, the reader passes
\* on the messages it passes on when it gets the same bytes in one chunk.
C17_ChunkingIrrelevant == decoded = FedWhole.out

\* no item written is a bare length of zero or above the ceiling
NoDiscard == \A k \in 1..Len(items) : items[k].kind \notin {"zero", "oversize"}

\* C17, for a stream in which the reader meets no length of zero or above
\* the ceiling: however the bytes are cut into chunks, the reader passes on
\* the messages, and keeps the bytes, it does for the same bytes in one
\* chunk; of a stream of well-formed frames these are the messages of the
\* frames handed over completely, in order.
C17_ChunkingNoDiscard ==
  NoDiscard =>
    /\ decoded = FedWhole.out
    /\ buf = FedWhole.buf
    /\ WellFormedStream =>
         decoded = [k \in 1..Cardinality(ItemsFed) |-> items[k].msg]

\* one frame passed on, and the next cut between the two bytes of a
\* character
C17_Witness ==
  /\ Len(items) = 2
  /\ WellFormedStream
  /\ items[2].msg.payload = <<"e-acute", "euro">>
  /\ decoded = <<items[1].msg>>
  /\ Len(buf) = 7
  /\ fed < Len(stream)

\* the buffer starts with a malformed frame: a length of zero or above the
\* ceiling, or a complete frame whose body is no JSON text
MalformedHead(b) ==
  /\ Len(b) >= 4
  /\ \/ b[1] > 0
     \/ b[2] * 65536 + b[3] * 256 + b[4] = 0
     \/ b[2] * 65536 + b[3] * 256 + b[4] > 2000000
     \/ LET len == b[2] * 65536 + b[3] * 256 + b[4]
        IN Len(b) >= 4 + len /\ ~Parses(BufToString(SubSeq(b, 5, 4 + len)))

\* C18: after a 'data' event the reader holds no malformed frame: it has
\* discarded its buffer when it met one.
C18_MalformedDiscarded == ~MalformedHead(buf)

\* C19: the frame sendMsg writes for a message, handed to the reader,
\* comes out as that one message.
C19_RoundTrip ==
  (Len(items) = 1 /\ items[1].kind = "sendMsg" /\ fed = Len(stream)) =>
    decoded = <<items[1].msg>>

\* C20: no two messages the process sent carry the same clientMsgId.
C20_UniqueIds ==
  \A i \in 1..Len(outbox) : \A j \in 1..Len(outbox) :
    i # j => outbox[i] # outbox[j]

\* a wait whose own timeout is longer than the connect timeout is pending
\* on the open connection
LongWaitPending ==
  /\ conn = "open"
  /\ Waiting
  /\ handlers # <<>>
  /\ handlers[1].timeoutMs > CONNECT_TIMEOUT

\* C21: once the connection is open, the program closes it only in the
\* cleanup step that ends the sync: while a wait of 15 or 20 seconds is
\* pending on the open connection, no step other than the end of the sync
\* calls the close operation, so the connection stays able to deliver the
\* response to that wait.
C21_ConnectTimerOnlyConnects ==
  [][(LongWaitPending /\ closeCalls' > closeCalls) => pc' = "done"]_vars

====
